---------------------------- MODULE Spec2Model ----------------------------
(***************************************************************************)
(* A model of the dekor crate (src/src/style.rs, src/src/characters.rs).   *)
(*                                                                         *)
(* A Rust String is modelled as the sequence of its UTF-8 bytes (0..255),  *)
(* because the code measures and slices strings by byte (hex.len(),        *)
(* &hex[0..2]) and u8::from_str_radix reads bytes.  A return value is a    *)
(* record; a panic of the called function is the outcome kind "Panic".     *)
(***************************************************************************)
EXTENDS Integers, Sequences, FiniteSets, TLC

VARIABLES
    styles,   \* the `styles` argument: a sequence of (Style, u8, u8, u8) tuples
    input,    \* the `input` argument of style / styler / style!: the text, as bytes
    value,    \* the `value` argument of to_rgb / as_rgb, as bytes
    self,     \* the receiver of Utf8::fmt / Utf8::repeat: a variant of Utf8
    times,    \* the `n` argument of Utf8::repeat
    call,     \* the entry point that was called last ("none" before any call)
    ret       \* what that call returned

vars == <<styles, input, value, self, times, call, ret>>

(***************************************************************************)
(* Bounds of the model.                                                    *)
(***************************************************************************)
MaxStyles == 3    \* longest attribute sequence handed to an entry point
MaxPieces == 4    \* most pieces a hex input is put together from
MaxHashes == 2    \* most leading '#' characters of a hex input
MaxRepeat == 4    \* largest n handed to Utf8::repeat

(***************************************************************************)
(* Sequence helpers.                                                       *)
(***************************************************************************)
RECURSIVE Concat(_)
Concat(ss) == IF ss = <<>> THEN <<>> ELSE Head(ss) \o Concat(Tail(ss))

Reverse(s) == [i \in 1..Len(s) |-> s[Len(s) + 1 - i]]

\* s[from..to) in Rust's half-open byte indexing (0-based)
Slice(s, from, to) == SubSeq(s, from + 1, to)

(***************************************************************************)
(* enum Style and its Display impl.                                        *)
(***************************************************************************)
Style ==
    { "Reset", "Bold", "Italic", "Underline",
      "FGBlack", "FGRed", "FGGreen", "FGYellow", "FGBlue", "FGPurple",
      "FGCyan", "FGWhite", "FGRGB",
      "BGBlack", "BGRed", "BGGreen", "BGYellow", "BGBlue", "BGPurple",
      "BGCyan", "BGWhite", "BGRGB" }

\* a wrong table: Italic numbered 2, the value the enum skips
DiscriminantShifted(s) ==
    CASE s = "Reset" -> 0 [] s = "Bold" -> 1 [] s = "Italic" -> 2
      [] s = "Underline" -> 4
      [] s = "FGBlack" -> 30 [] s = "FGRed" -> 31 [] s = "FGGreen" -> 32
      [] s = "FGYellow" -> 33 [] s = "FGBlue" -> 34 [] s = "FGPurple" -> 35
      [] s = "FGCyan" -> 36 [] s = "FGWhite" -> 37 [] s = "FGRGB" -> 38
      [] s = "BGBlack" -> 40 [] s = "BGRed" -> 41 [] s = "BGGreen" -> 42
      [] s = "BGYellow" -> 43 [] s = "BGBlue" -> 44 [] s = "BGPurple" -> 45
      [] s = "BGCyan" -> 46 [] s = "BGWhite" -> 47 [] s = "BGRGB" -> 48

\* `*self as u64`: the discriminant of the variant
Discriminant(s) ==
    CASE s = "Reset" -> 0 [] s = "Bold" -> 1 [] s = "Italic" -> 3
      [] s = "Underline" -> 4
      [] s = "FGBlack" -> 30 [] s = "FGRed" -> 31 [] s = "FGGreen" -> 32
      [] s = "FGYellow" -> 33 [] s = "FGBlue" -> 34 [] s = "FGPurple" -> 35
      [] s = "FGCyan" -> 36 [] s = "FGWhite" -> 37 [] s = "FGRGB" -> 38
      [] s = "BGBlack" -> 40 [] s = "BGRed" -> 41 [] s = "BGGreen" -> 42
      [] s = "BGYellow" -> 43 [] s = "BGBlue" -> 44 [] s = "BGPurple" -> 45
      [] s = "BGCyan" -> 46 [] s = "BGWhite" -> 47 [] s = "BGRGB" -> 48

\* format!("{}", n) of an unsigned integer: its decimal digits, as ASCII bytes
RECURSIVE Decimal(_)
Decimal(n) ==
    IF n < 10 THEN <<48 + n>> ELSE Decimal(n \div 10) \o <<48 + (n % 10)>>

\* impl Display for Style: write!(f, "{}", *self as u64)
StyleToString(s) == Decimal(Discriminant(s))

(***************************************************************************)
(* The pieces of the format strings.                                       *)
(***************************************************************************)
CSI       == <<27, 91>>            \* "\x1b["
SGR_END   == <<109>>               \* "m"
RESET_SEQ == <<27, 91, 48, 109>>   \* "\x1b[0m"
SEP       == <<59>>                \* ";"
RGB_TAG   == <<59, 50, 59>>        \* ";2;"

\* [String]::join(";")
RECURSIVE Join(_)
Join(ss) ==
    IF ss = <<>> THEN <<>>
    ELSE IF Len(ss) = 1 THEN ss[1]
    ELSE ss[1] \o SEP \o Join(Tail(ss))

\* format!("\x1b[{}m{}\x1b[0m", codes.join(";"), input)
Wrap(codes, text) == CSI \o Join(codes) \o SGR_END \o text \o RESET_SEQ

\* format!("{};2;{};{};{}", s, r, g, b)
RgbRendering(s, r, g, b) ==
    StyleToString(s) \o RGB_TAG \o Decimal(r) \o SEP \o Decimal(g) \o SEP \o Decimal(b)

IsRgbStyle(s) == s \in {"FGRGB", "BGRGB"}

(***************************************************************************)
(* pub fn style(styles, input)                                             *)
(***************************************************************************)
\* the reset suffix left out
style_noreset(ss, text) ==
    CSI \o Join([i \in 1..Len(ss) |-> StyleToString(ss[i])]) \o SGR_END \o text

style(ss, text) ==
    Wrap([i \in 1..Len(ss) |-> StyleToString(ss[i])], text)

(***************************************************************************)
(* pub fn styler(styles, input)                                            *)
(***************************************************************************)
\* the closure of styler's map
StylerEntry(e) ==
    IF IsRgbStyle(e[1]) THEN RgbRendering(e[1], e[2], e[3], e[4])
    ELSE StyleToString(e[1])

\* the entries rendered back to front
styler_reversed(es, text) ==
    Wrap(Reverse([i \in 1..Len(es) |-> StylerEntry(es[i])]), text)

styler(es, text) ==
    Wrap([i \in 1..Len(es) |-> StylerEntry(es[i])], text)

(***************************************************************************)
(* macro_rules! style                                                      *)
(***************************************************************************)
\* first arm: ($($v:ident),+ => $input:expr)
style_macro_idents(ss, text) ==
    Wrap([i \in 1..Len(ss) |-> StyleToString(ss[i])], text)

\* second arm: ($($v1:ident,)? $(($rgb:ident, $r, $g, $b)),+ $(,$v2:ident)? => $input)
\* v1 and v2 are sequences of at most one identifier
style_macro_tuples(v1, tuples, v2, text) ==
    Wrap( [i \in 1..Len(v1) |-> StyleToString(v1[i])]
          \o [i \in 1..Len(tuples) |->
                RgbRendering(tuples[i][1], tuples[i][2], tuples[i][3], tuples[i][4])]
          \o [i \in 1..Len(v2) |-> StyleToString(v2[i])],
          text )

(***************************************************************************)
(* Hex decoding: to_rgb and as_rgb.                                        *)
(***************************************************************************)
\* str::is_char_boundary: index 0, index len, or a byte that does not
\* continue a multi-byte character (not 0b10xxxxxx)
IsCharBoundary(s, i) ==
    \/ i = 0
    \/ i = Len(s)
    \/ (i < Len(s) /\ ~(s[i + 1] \in 128..191))

\* &s[from..to] panics unless both ends are char boundaries
CanSlice(s, from, to) ==
    from <= to /\ to <= Len(s) /\ IsCharBoundary(s, from) /\ IsCharBoundary(s, to)

\* upper-case letters not taken as digits
ToDigit16LowerOnly(b) ==
    IF b \in 48..57 THEN b - 48
    ELSE IF b \in 97..102 THEN b - 87
    ELSE -1

\* char::to_digit(16) of a byte; -1 stands for None
ToDigit16(b) ==
    IF b \in 48..57 THEN b - 48
    ELSE IF b \in 97..102 THEN b - 87
    ELSE IF b \in 65..70 THEN b - 55
    ELSE -1

RECURSIVE Accumulate16(_, _)
\* the digit loop of from_str_radix: result = result * 16 + digit, failing
\* on the first byte that is no digit and on a value above u8::MAX
Accumulate16(digits, acc) ==
    IF digits = <<>> THEN [kind |-> "Ok", n |-> acc]
    ELSE IF ToDigit16(Head(digits)) < 0 THEN [kind |-> "Err", err |-> "InvalidDigit"]
    ELSE IF acc * 16 + ToDigit16(Head(digits)) > 255
         THEN [kind |-> "Err", err |-> "PosOverflow"]
    ELSE Accumulate16(Tail(digits), acc * 16 + ToDigit16(Head(digits)))

\* u8::from_str_radix(src, 16): an empty string and a lone sign are errors,
\* one leading '+' is skipped ('-' is not, u8 being unsigned)
FromStrRadix16(src) ==
    IF src = <<>> THEN [kind |-> "Err", err |-> "Empty"]
    ELSE IF src = <<43>> \/ src = <<45>> THEN [kind |-> "Err", err |-> "InvalidDigit"]
    ELSE IF Head(src) = 43 THEN Accumulate16(Tail(src), 0)
    ELSE Accumulate16(src, 0)

\* the prefix never stripped
StripHashNever(v) == v

\* let hex = if v.starts_with('#') { &v[1..] } else { v };
StripHash(v) == IF v # <<>> /\ Head(v) = 35 THEN Tail(v) ELSE v

Panic == [kind |-> "Panic"]

\* one `u8::from_str_radix(&hex[from..to], 16)`, the slice included
ParseGroup(hex, from, to) ==
    IF CanSlice(hex, from, to) THEN FromStrRadix16(Slice(hex, from, to)) ELSE Panic

\* pub fn to_rgb(value) -> Result<(u8, u8, u8), HexError>; each `?` returns
\* the first failure before the next group is sliced
to_rgb(v) ==
    LET hex == StripHash(v)
        r == ParseGroup(hex, 0, 2)
        g == ParseGroup(hex, 2, 4)
        b == ParseGroup(hex, 4, 6)
    IN  IF Len(hex) # 6 THEN [kind |-> "InvalidLength"]
        ELSE IF r.kind = "Panic" THEN Panic
        ELSE IF r.kind = "Err" THEN [kind |-> "ParseError", err |-> r.err]
        ELSE IF g.kind = "Panic" THEN Panic
        ELSE IF g.kind = "Err" THEN [kind |-> "ParseError", err |-> g.err]
        ELSE IF b.kind = "Panic" THEN Panic
        ELSE IF b.kind = "Err" THEN [kind |-> "ParseError", err |-> b.err]
        ELSE [kind |-> "Ok", rgb |-> <<r.n, g.n, b.n>>]

\* Result::unwrap_or(0)
UnwrapOr0(p) == IF p.kind = "Ok" THEN p.n ELSE 0

\* pub fn as_rgb(value) -> (u8, u8, u8)
as_rgb(v) ==
    LET hex == StripHash(v)
        r == ParseGroup(hex, 0, 2)
        g == ParseGroup(hex, 2, 4)
        b == ParseGroup(hex, 4, 6)
    IN  IF Len(hex) # 6 THEN [kind |-> "Rgb", rgb |-> <<0, 0, 0>>]
        ELSE IF r.kind = "Panic" \/ g.kind = "Panic" \/ b.kind = "Panic" THEN Panic
        ELSE [kind |-> "Rgb", rgb |-> <<UnwrapOr0(r), UnwrapOr0(g), UnwrapOr0(b)>>]

(***************************************************************************)
(* enum Utf8, its Display impl and Utf8::repeat (characters.rs).           *)
(***************************************************************************)
Utf8 ==
    { "ModLetterLeftArrowhead", "ModLetterRightArrowhead", "ModLetterUpArrowhead",
      "ModLetterDownArrowhead", "EndGuardArea", "HPipeSlim", "VPipeSlim",
      "JointPipeSlim", "NodePipeSlim", "NodePipeCurved", "HPipeBold", "VPipeBold",
      "JointPipeBold", "NodePipeBold", "HPipeDouble", "VPipeDouble",
      "JointPipeDouble", "NodePipeDouble", "CanadianSyllabicsE",
      "CanadianSyllabicsI", "CanadianSyllabicsO", "CanadianSyllabicsA",
      "TriangleDown", "TriangleUp", "TriangleRight", "TriangleLeft" }

\* impl Display for Utf8: the UTF-8 bytes of the literal each arm writes
Utf8ToString(u) ==
    CASE u = "ModLetterLeftArrowhead"  -> <<203, 130>>        \* U+02C2
      [] u = "ModLetterRightArrowhead" -> <<203, 131>>        \* U+02C3
      [] u = "ModLetterUpArrowhead"    -> <<203, 132>>        \* U+02C4
      [] u = "ModLetterDownArrowhead"  -> <<203, 133>>        \* U+02C5
      [] u = "EndGuardArea"            -> <<226, 128, 148>>   \* U+2014
      [] u = "CanadianSyllabicsE"      -> <<225, 144, 129>>   \* U+1401
      [] u = "CanadianSyllabicsI"      -> <<225, 144, 131>>   \* U+1403
      [] u = "CanadianSyllabicsO"      -> <<225, 144, 133>>   \* U+1405
      [] u = "CanadianSyllabicsA"      -> <<225, 144, 138>>   \* U+140A
      [] u = "TriangleDown"            -> <<225, 144, 129>>   \* U+1401
      [] u = "TriangleUp"              -> <<225, 144, 131>>   \* U+1403
      [] u = "TriangleRight"           -> <<225, 144, 133>>   \* U+1405
      [] u = "TriangleLeft"            -> <<225, 144, 138>>   \* U+140A
      [] u = "HPipeSlim"               -> <<226, 128, 148>>   \* U+2014
      [] u = "VPipeSlim"               -> <<226, 148, 130>>   \* U+2502
      [] u = "JointPipeSlim"           -> <<226, 148, 156>>   \* U+251C
      [] u = "NodePipeSlim"            -> <<226, 148, 148>>   \* U+2514
      [] u = "NodePipeCurved"          -> <<226, 149, 176>>   \* U+2570
      [] u = "HPipeBold"               -> <<226, 148, 129>>   \* U+2501
      [] u = "VPipeBold"               -> <<226, 148, 131>>   \* U+2503
      [] u = "JointPipeBold"           -> <<226, 148, 163>>   \* U+2523
      [] u = "NodePipeBold"            -> <<226, 148, 151>>   \* U+2517
      [] u = "HPipeDouble"             -> <<226, 149, 144>>   \* U+2550
      [] u = "VPipeDouble"             -> <<226, 149, 145>>   \* U+2551
      [] u = "JointPipeDouble"         -> <<226, 149, 160>>   \* U+2560
      [] u = "NodePipeDouble"          -> <<226, 149, 154>>   \* U+255A

RECURSIVE repeat_one_more(_, _)
\* one copy too many: take(n + 1)
repeat_one_more(u, k) ==
    IF k = 0 THEN Utf8ToString(u) ELSE Utf8ToString(u) \o repeat_one_more(u, k - 1)

RECURSIVE repeat(_, _)
\* std::iter::repeat(self.to_string()).take(n).collect()
repeat(u, k) ==
    IF k = 0 THEN <<>> ELSE Utf8ToString(u) \o repeat(u, k - 1)

\* no Utf8 value: the glyph catalogue is not in use
NoGlyph == "none"

(***************************************************************************)
(* The inputs the entry points are called with.                            *)
(***************************************************************************)
\* colour payloads of a styler tuple
ColorTriples == { <<0, 0, 0>>, <<255, 100, 50>> }

Entry(s, t) == <<s, t[1], t[2], t[3]>>

AllEntries == { Entry(s, t) : s \in Style, t \in ColorTriples }

\* the attributes that longer sequences are put together from
SampleStyles == { "Bold", "Italic", "FGRed", "FGRGB", "BGRGB" }

SampleEntries == { Entry(s, t) : s \in SampleStyles, t \in ColorTriples }

RECURSIVE SeqsUpTo(_, _)
SeqsUpTo(S, n) ==
    IF n = 0 THEN { <<>> }
    ELSE LET shorter == SeqsUpTo(S, n - 1)
         IN  shorter \cup { <<x>> \o s : x \in S, s \in { q \in shorter : Len(q) = n - 1 } }

\* every single attribute of the catalogue, and every sequence of up to
\* MaxStyles sampled attributes
StyleInputs == { <<e>> : e \in AllEntries } \cup SeqsUpTo(SampleEntries, MaxStyles)

\* "", "hi", and a text of control bytes: ESC '[' ';' 'm'
Texts == { <<>>, <<104, 105>>, <<27, 91, 59, 109>> }

\* "1", "é" (two bytes), "5a", "5A", "FF", "0G", "+F", "-1"
Pieces ==
    { <<49>>, <<195, 169>>, <<53, 97>>, <<53, 65>>, <<70, 70>>,
      <<48, 71>>, <<43, 70>>, <<45, 49>> }

Hashes(k) == [i \in 1..k |-> 35]

\* up to MaxHashes '#', then up to MaxPieces pieces
HexInputs ==
    { Hashes(k) \o Concat(ps) : k \in 0..MaxHashes, ps \in SeqsUpTo(Pieces, MaxPieces) }

StylesOf(es) == [i \in 1..Len(es) |-> es[i][1]]

NoCall == [fn |-> "none", lead |-> 0, trail |-> 0]
Called(f) == [fn |-> f, lead |-> 0, trail |-> 0]
NoRet == [kind |-> "None"]
Str(s) == [kind |-> "Str", str |-> s]

(***************************************************************************)
(* The state machine: an input is chosen, then entry points are called on  *)
(* it, in any order, any number of times.                                  *)
(***************************************************************************)
InitStyle ==
    /\ styles \in StyleInputs
    /\ input \in Texts
    /\ value = <<>>
    /\ self = NoGlyph
    /\ times = 0
    /\ call = NoCall
    /\ ret = NoRet

InitHex ==
    /\ styles = <<>>
    /\ input = <<>>
    /\ value \in HexInputs
    /\ self = NoGlyph
    /\ times = 0
    /\ call = NoCall
    /\ ret = NoRet

InitGlyph ==
    /\ styles = <<>>
    /\ input = <<>>
    /\ value = <<>>
    /\ self \in Utf8
    /\ times \in 0..MaxRepeat
    /\ call = NoCall
    /\ ret = NoRet

Init == InitStyle \/ InitHex \/ InitGlyph

CallStyle ==
    /\ call' = Called("style")
    /\ ret' = Str(style(StylesOf(styles), input))
    /\ UNCHANGED <<styles, input, value, self, times>>

CallStyler ==
    /\ call' = Called("styler")
    /\ ret' = Str(styler(styles, input))
    /\ UNCHANGED <<styles, input, value, self, times>>

\* style!(A, B, ... => input): at least one identifier
CallMacroIdents ==
    /\ Len(styles) >= 1
    /\ call' = Called("style_macro_idents")
    /\ ret' = Str(style_macro_idents(StylesOf(styles), input))
    /\ UNCHANGED <<styles, input, value, self, times>>

\* style!(A, (B, r, g, b), ..., C => input): `lead` and `trail` say whether
\* the first and the last entry are written as bare identifiers
CallMacroTuples ==
    \E lead \in 0..1, trail \in 0..1 :
        /\ Len(styles) >= lead + 1 + trail
        /\ call' = [fn |-> "style_macro_tuples", lead |-> lead, trail |-> trail]
        /\ ret' = Str(style_macro_tuples(
                        StylesOf(SubSeq(styles, 1, lead)),
                        SubSeq(styles, lead + 1, Len(styles) - trail),
                        StylesOf(SubSeq(styles, Len(styles) - trail + 1, Len(styles))),
                        input))
        /\ UNCHANGED <<styles, input, value, self, times>>

CallToRgb ==
    /\ call' = Called("to_rgb")
    /\ ret' = to_rgb(value)
    /\ UNCHANGED <<styles, input, value, self, times>>

CallAsRgb ==
    /\ call' = Called("as_rgb")
    /\ ret' = as_rgb(value)
    /\ UNCHANGED <<styles, input, value, self, times>>

\* self.to_string(), through impl Display for Utf8
CallToString ==
    /\ self \in Utf8
    /\ call' = Called("to_string")
    /\ ret' = Str(Utf8ToString(self))
    /\ UNCHANGED <<styles, input, value, self, times>>

CallRepeat ==
    /\ self \in Utf8
    /\ call' = Called("repeat")
    /\ ret' = Str(repeat(self, times))
    /\ UNCHANGED <<styles, input, value, self, times>>

NextStyle == CallStyle \/ CallStyler \/ CallMacroIdents \/ CallMacroTuples

NextHex == CallToRgb \/ CallAsRgb

NextGlyph == CallToString \/ CallRepeat

Next == NextStyle \/ NextHex \/ NextGlyph

SpecStyle == InitStyle /\ [][NextStyle]_vars

SpecHex == InitHex /\ [][NextHex]_vars

SpecGlyph == InitGlyph /\ [][NextGlyph]_vars

Spec == Init /\ [][Next]_vars

(***************************************************************************)
(* Reading an output string back, as a terminal would.                     *)
(***************************************************************************)
EncodeCalls == { "style", "styler", "style_macro_idents", "style_macro_tuples" }

IsDigit(b) == b \in 48..57

IsHexDigit(b) == b \in (48..57) \cup (97..102) \cup (65..70)

\* the position of the first byte b of s, Len(s) + 1 when there is none
FirstIndex(s, b) ==
    IF \E i \in 1..Len(s) : s[i] = b
    THEN CHOOSE i \in 1..Len(s) : s[i] = b /\ \A j \in 1..(i - 1) : s[j] # b
    ELSE Len(s) + 1

\* what stands between the leading ESC '[' and the first 'm'
CodeList(s) == SubSeq(s, 3, FirstIndex(s, 109) - 1)

RECURSIVE SplitOn(_, _)
\* the fields of s between separators b; the empty string has no field
SplitOn(s, b) ==
    IF s = <<>> THEN <<>>
    ELSE LET k == FirstIndex(s, b)
         IN  IF k > Len(s) THEN <<s>>
             ELSE IF k = Len(s) THEN <<SubSeq(s, 1, k - 1), <<>> >>
             ELSE <<SubSeq(s, 1, k - 1)>> \o SplitOn(SubSeq(s, k + 1, Len(s)), b)

RawFields(s) == SplitOn(CodeList(s), 59)

\* a decimal number as format! writes it: digits only, no leading zero
IsCanonicalNumber(f) ==
    /\ f # <<>>
    /\ \A i \in 1..Len(f) : IsDigit(f[i])
    /\ (Len(f) > 1 => f[1] # 48)

RECURSIVE NumberOf(_)
NumberOf(f) ==
    IF f = <<>> THEN 0 ELSE NumberOf(SubSeq(f, 1, Len(f) - 1)) * 10 + (f[Len(f)] - 48)

\* the code list as numbers; <<-1>> when some field is not a canonical number
Fields(s) ==
    LET raw == RawFields(s)
    IN  IF \A i \in 1..Len(raw) : IsCanonicalNumber(raw[i])
        THEN [i \in 1..Len(raw) |-> NumberOf(raw[i])]
        ELSE <<-1>>

(***************************************************************************)
(* C1: every call of style, styler and style! returns exactly              *)
(* ESC '[' <codes> 'm' <text> ESC '[' '0' 'm': the string starts with      *)
(* ESC '[', the code list holds digits and ';' only and is closed by 'm',  *)
(* the text follows verbatim, and the reset suffix ends the string.        *)
(***************************************************************************)
C1_OutputFraming ==
    call.fn \in EncodeCalls =>
        LET s == ret.str
            n == Len(s)
            k == Len(input)
        IN  /\ ret.kind = "Str"
            /\ n >= 7 + k
            /\ SubSeq(s, 1, 2) = <<27, 91>>
            /\ \A i \in 3..(n - 5 - k) : IsDigit(s[i]) \/ s[i] = 59
            /\ s[n - 4 - k] = 109
            /\ SubSeq(s, n - 3 - k, n - 4) = input
            /\ SubSeq(s, n - 3, n) = <<27, 91, 48, 109>>

\* style was called with two attributes on a text that itself holds ESC, ';', 'm'
C1_Witness ==
    /\ call.fn = "style"
    /\ Len(styles) = 2
    /\ input = <<27, 91, 59, 109>>
    /\ ret.kind = "Str"

(***************************************************************************)
(* C2: attribute order is preserved, nothing is merged or dropped: the     *)
(* code list of style is the codes of the n entries in input order, that   *)
(* of styler the fields of the n entries in input order (a duplicate       *)
(* appears twice), and for two different attributes A, B the outputs for   *)
(* [A, B] and [B, A] differ.                                               *)
(***************************************************************************)
EntryFields(e) ==
    IF IsRgbStyle(e[1]) THEN <<Discriminant(e[1]), 2, e[2], e[3], e[4]>>
    ELSE <<Discriminant(e[1])>>

C2_OrderPreserved ==
    /\ call.fn = "style" =>
          /\ Fields(ret.str) = [i \in 1..Len(styles) |-> Discriminant(styles[i][1])]
          /\ (Len(styles) = 2 /\ styles[1][1] # styles[2][1]) =>
                ret.str # style(StylesOf(Reverse(styles)), input)
    /\ call.fn = "styler" =>
          /\ Fields(ret.str) = Concat([i \in 1..Len(styles) |-> EntryFields(styles[i])])
          /\ (Len(styles) = 2 /\ styles[1][1] # styles[2][1]) =>
                ret.str # styler(Reverse(styles), input)

\* styler was called on [A, B, A] with A an RGB attribute and B a plain one
C2_Witness ==
    /\ call.fn = "styler"
    /\ Len(styles) = 3
    /\ styles[1] = styles[3]
    /\ IsRgbStyle(styles[1][1])
    /\ ~IsRgbStyle(styles[2][1])
    /\ Len(Fields(ret.str)) = 11

(***************************************************************************)
(* C3: styler renders an entry (s, r, g, b) as the catalogue code of s,    *)
(* followed by ;2;r;g;b in decimal when s is FGRGB or BGRGB, and as the    *)
(* code alone otherwise: r, g, b of a plain attribute never appear.        *)
(***************************************************************************)
\* the catalogue, as the decimal text of each code
CatalogueText(s) ==
    CASE s = "Reset" -> <<48>> [] s = "Bold" -> <<49>> [] s = "Italic" -> <<51>>
      [] s = "Underline" -> <<52>>
      [] s = "FGBlack" -> <<51, 48>> [] s = "FGRed" -> <<51, 49>>
      [] s = "FGGreen" -> <<51, 50>> [] s = "FGYellow" -> <<51, 51>>
      [] s = "FGBlue" -> <<51, 52>> [] s = "FGPurple" -> <<51, 53>>
      [] s = "FGCyan" -> <<51, 54>> [] s = "FGWhite" -> <<51, 55>>
      [] s = "FGRGB" -> <<51, 56>>
      [] s = "BGBlack" -> <<52, 48>> [] s = "BGRed" -> <<52, 49>>
      [] s = "BGGreen" -> <<52, 50>> [] s = "BGYellow" -> <<52, 51>>
      [] s = "BGBlue" -> <<52, 52>> [] s = "BGPurple" -> <<52, 53>>
      [] s = "BGCyan" -> <<52, 54>> [] s = "BGWhite" -> <<52, 55>>
      [] s = "BGRGB" -> <<52, 56>>

EntryWidth(e) == IF IsRgbStyle(e[1]) THEN 5 ELSE 1

RECURSIVE FieldOffset(_, _)
\* how many fields the entries before the i-th take
FieldOffset(es, i) ==
    IF i <= 1 THEN 0 ELSE FieldOffset(es, i - 1) + EntryWidth(es[i - 1])

IsNumberField(f, n) == IsCanonicalNumber(f) /\ NumberOf(f) = n

C3_StylerRendering ==
    call.fn = "styler" =>
        LET raw == RawFields(ret.str)
        IN  /\ Len(raw) = FieldOffset(styles, Len(styles) + 1)
            /\ \A i \in 1..Len(styles) :
                  LET e == styles[i]
                      o == FieldOffset(styles, i)
                  IN  /\ raw[o + 1] = CatalogueText(e[1])
                      /\ IsRgbStyle(e[1]) =>
                            /\ raw[o + 2] = <<50>>
                            /\ IsNumberField(raw[o + 3], e[2])
                            /\ IsNumberField(raw[o + 4], e[3])
                            /\ IsNumberField(raw[o + 5], e[4])

\* styler was called with a plain attribute carrying non-zero colour values
\* next to an RGB attribute
C3_Witness ==
    /\ call.fn = "styler"
    /\ \E i \in 1..Len(styles) : ~IsRgbStyle(styles[i][1]) /\ styles[i][2] = 255
    /\ \E i \in 1..Len(styles) : IsRgbStyle(styles[i][1]) /\ styles[i][2] = 255

(***************************************************************************)
(* C4: the style! macro and the functions give byte-identical strings for  *)
(* the same attributes, colour values and text: the identifier arm equals  *)
(* style on the same list, and the tuple arm equals styler on the same     *)
(* tuples (a bare identifier being a plain attribute, whose colour values  *)
(* styler ignores).                                                        *)
(***************************************************************************)
\* the entries the tuple arm was given as bare identifiers
BareEntries ==
    { i \in 1..Len(styles) : i <= call.lead \/ i > Len(styles) - call.trail }

C4_MacroEqualsFunctions ==
    /\ call.fn = "style_macro_idents" =>
          ret.str = style(StylesOf(styles), input)
    /\ (call.fn = "style_macro_tuples"
          /\ \A i \in BareEntries : ~IsRgbStyle(styles[i][1])) =>
          ret.str = styler(styles, input)

(***************************************************************************)
(* C5: in the output of every entry point an RGB code (38, 48) is followed *)
(* by ;2;r;g;b and the code of any other attribute is not: the code list   *)
(* reads as a sequence of plain codes and of 5-field RGB groups.           *)
(***************************************************************************)
PlainCodes == { Discriminant(s) : s \in Style \ {"FGRGB", "BGRGB"} }

RECURSIVE WellPaired(_)
WellPaired(fs) ==
    IF fs = <<>> THEN TRUE
    ELSE IF Head(fs) \in {38, 48}
         THEN /\ Len(fs) >= 5
              /\ fs[2] = 2
              /\ \A i \in 3..5 : fs[i] \in 0..255
              /\ WellPaired(SubSeq(fs, 6, Len(fs)))
    ELSE Head(fs) \in PlainCodes /\ WellPaired(Tail(fs))

C5_RgbPairing ==
    call.fn \in EncodeCalls => WellPaired(Fields(ret.str))

(***************************************************************************)
(* C6: one leading '#' is immaterial: for six hex digits h, to_rgb(h) and  *)
(* to_rgb("#" + h) are the same Ok triple, and as_rgb(h) = as_rgb("#" + h).*)
(***************************************************************************)
IsHex6(v) == Len(v) = 6 /\ \A i \in 1..6 : IsHexDigit(v[i])

IsHashHex6(v) == Len(v) = 7 /\ v[1] = 35 /\ IsHex6(Tail(v))

C6_HashImmaterial ==
    /\ (call.fn = "to_rgb" /\ IsHex6(value)) =>
          ret.kind = "Ok" /\ ret = to_rgb(<<35>> \o value)
    /\ (call.fn = "to_rgb" /\ IsHashHex6(value)) =>
          ret.kind = "Ok" /\ ret = to_rgb(Tail(value))
    /\ (call.fn = "as_rgb" /\ IsHex6(value)) =>
          ret.kind = "Rgb" /\ ret = as_rgb(<<35>> \o value)
    /\ (call.fn = "as_rgb" /\ IsHashHex6(value)) =>
          ret.kind = "Rgb" /\ ret = as_rgb(Tail(value))

\* to_rgb returned Ok for '#' followed by six hex digits
C6_Witness ==
    call.fn = "to_rgb" /\ IsHashHex6(value) /\ ret.kind = "Ok"

(***************************************************************************)
(* C7: to_rgb returns Err(InvalidLength) for every input that, after at    *)
(* most one leading '#' is stripped, is not exactly 6 characters long,     *)
(* whatever the characters are.                                            *)
(***************************************************************************)
\* the number of characters of a UTF-8 string: the bytes that start one
CharCount(s) == Cardinality({ i \in 1..Len(s) : ~(s[i] \in 128..191) })

C7_InvalidLength ==
    (call.fn = "to_rgb" /\ CharCount(StripHash(value)) # 6) =>
        ret.kind = "InvalidLength"

(***************************************************************************)
(* C8: for an input of exactly 6 characters after the optional '#',        *)
(* to_rgb returns Ok when all six are hex digits and Err(ParseError) when  *)
(* any of them is not (a sign included).                                   *)
(***************************************************************************)
C8_ParseError ==
    (call.fn = "to_rgb" /\ CharCount(StripHash(value)) = 6) =>
        IF IsHex6(StripHash(value)) THEN ret.kind = "Ok" ELSE ret.kind = "ParseError"

(***************************************************************************)
(* C9: as_rgb never fails: for every input it returns a triple of 8-bit    *)
(* components, and (0, 0, 0) when the length check fails.                  *)
(***************************************************************************)
C9_AsRgbTotal ==
    call.fn = "as_rgb" =>
        /\ ret.kind = "Rgb"
        /\ \A i \in 1..3 : ret.rgb[i] \in 0..255
        /\ Len(StripHash(value)) # 6 => ret.rgb = <<0, 0, 0>>

(***************************************************************************)
(* C10: as_rgb is to_rgb with zero substitution: where to_rgb returns      *)
(* Ok(t), as_rgb returns t; where it returns Err(InvalidLength), (0,0,0);  *)
(* where it returns Err(ParseError), the triple of each group's value, 0   *)
(* standing for a group that does not parse.                               *)
(***************************************************************************)
\* the value of the k-th two-byte group of hex, 0 when it does not parse
GroupOr0(hex, k) == UnwrapOr0(FromStrRadix16(Slice(hex, 2 * k - 2, 2 * k)))

C10_AsRgbRefinesToRgb ==
    call.fn = "as_rgb" =>
        LET strict == to_rgb(value)
            hex == StripHash(value)
        IN  /\ strict.kind = "Ok" => (ret.kind = "Rgb" /\ ret.rgb = strict.rgb)
            /\ strict.kind = "InvalidLength" =>
                  (ret.kind = "Rgb" /\ ret.rgb = <<0, 0, 0>>)
            /\ strict.kind = "ParseError" =>
                  /\ ret.kind = "Rgb"
                  /\ ret.rgb = <<GroupOr0(hex, 1), GroupOr0(hex, 2), GroupOr0(hex, 3)>>

(***************************************************************************)
(* C11: for six hex digits h in any letter case, to_rgb(h) is Ok((r,g,b))  *)
(* with r the value of the first pair, g of the second, b of the third;    *)
(* writing r, g, b back as three 2-digit hex pairs gives h up to letter    *)
(* case; and h, its upper-case and its lower-case form decode alike.       *)
(***************************************************************************)
\* "0123456789abcdef"
LowerDigits ==
    <<48, 49, 50, 51, 52, 53, 54, 55, 56, 57, 97, 98, 99, 100, 101, 102>>

ToLowerByte(b) == IF b \in 65..90 THEN b + 32 ELSE b

ToUpperByte(b) == IF b \in 97..122 THEN b - 32 ELSE b

ToLower(s) == [i \in 1..Len(s) |-> ToLowerByte(s[i])]

ToUpper(s) == [i \in 1..Len(s) |-> ToUpperByte(s[i])]

\* the value of a hex digit, read off its place in "0123456789abcdef"
DigitValue(b) == (CHOOSE i \in 1..16 : LowerDigits[i] = ToLowerByte(b)) - 1

PairValue(h, k) == 16 * DigitValue(h[2 * k - 1]) + DigitValue(h[2 * k])

\* a component written back as two lower-case hex digits
HexPair(c) == <<LowerDigits[(c \div 16) + 1], LowerDigits[(c % 16) + 1]>>

C11_RoundTrip ==
    (call.fn = "to_rgb" /\ IsHex6(value)) =>
        /\ ret.kind = "Ok"
        /\ ret.rgb = <<PairValue(value, 1), PairValue(value, 2), PairValue(value, 3)>>
        /\ HexPair(ret.rgb[1]) \o HexPair(ret.rgb[2]) \o HexPair(ret.rgb[3])
              = ToLower(value)
        /\ ret = to_rgb(ToUpper(value))
        /\ ret = to_rgb(ToLower(value))

\* to_rgb decoded six digits of mixed case into three different components
C11_Witness ==
    /\ call.fn = "to_rgb"
    /\ IsHex6(value)
    /\ \E i \in 1..6 : value[i] \in 97..102
    /\ \E i \in 1..6 : value[i] \in 65..70
    /\ ret.kind = "Ok"
    /\ Cardinality({ ret.rgb[1], ret.rgb[2], ret.rgb[3] }) = 3

(***************************************************************************)
(* C12: for every name of the Utf8 catalogue and every n >= 0,             *)
(* repeat(name, n) is n consecutive copies of the one glyph that name      *)
(* renders to and nothing else: empty for n = 0, the glyph itself for      *)
(* n = 1.                                                                  *)
(***************************************************************************)
C12_RepeatCopies ==
    call.fn = "repeat" =>
        LET g == Utf8ToString(self)
            s == ret.str
        IN  /\ ret.kind = "Str"
            /\ CharCount(g) = 1
            /\ Len(s) = times * Len(g)
            /\ \A i \in 1..Len(s) : s[i] = g[((i - 1) % Len(g)) + 1]
            /\ CharCount(s) = times
            /\ times = 0 => s = <<>>
            /\ times = 1 => s = g

\* VPipeSlim.repeat(4) returned four glyphs of three bytes each
C12_Witness ==
    /\ call.fn = "repeat"
    /\ self = "VPipeSlim"
    /\ times = 4
    /\ ret.kind = "Str"
    /\ Len(ret.str) = 12

=============================================================================
